---- MODULE Spec2Model ----
(***************************************************************************)
(* yiitz/fastproxy: the TCP dialer (transport/tcpdialer.go) and the URI    *)
(* helper (uri/uri.go).                                                    *)
(*                                                                         *)
(* Dialer: goroutines calling the DialFunc built by newDial (or            *)
(* getTCPAddrs directly) are the processes in Callers; the goroutine       *)
(* started by tryDial is a worker; tcpAddrsClean is the reaper. A step is  *)
(* one critical section of tcpAddrsLock, one channel operation or one      *)
(* atomic operation.                                                       *)
(*                                                                         *)
(* Time: the DNS cache is compared against a clock `now` whose unit is one *)
(* minute (DefaultDNSCacheDuration = time.Minute = 1). The dial deadline   *)
(* (5 s) is shorter than a clock unit; it is the flag expired[c], "the     *)
(* deadline of c's call has passed", which time may set at any moment.     *)
(***************************************************************************)
EXTENDS Integers, Sequences, FiniteSets, TLC

\* ------------------------------------------------------------------ bounds
NumCallers == 2     \* goroutines that call the dialer
MaxLookups == 4     \* direct calls of getTCPAddrs in a run, all together
MaxDials == 2       \* calls of the DialFunc in a run, all together
MaxAddrs == 2       \* most addresses the resolver returns for a host
MaxEntries == 2     \* tcpAddrEntry objects allocated in a run
MaxTime == 3        \* last reading of the clock (minutes)
IdxBits == 2        \* width of addrsIdx (uint32 in the source)
MaxSlots == 1       \* stand-in for the 1000 of maxDialConcurrency
MaxRawLen == 3      \* longest arbitrary byte string handed to Parse
MaxOps == 3         \* calls made on a URI, its Parse included
MaxGets == 3        \* getDialer calls in a behaviour
MaxSpare == 1       \* most bytes of capacity behind the slice handed to Parse

\* ------------------------------------------------------- program constants
maxDialConcurrency == MaxSlots
DefaultDNSCacheDuration == 1
IdxMod == 2 ^ IdxBits

Callers == 1..NumCallers
Hosts == {"a.test:80"}
Nil == 0

\* durations are counted in units of 50 ms
DefaultDialTimeout == 100

\* the timeouts getDialer is called with: none, 100 ms, 5 s, 5.05 s
Timeouts == {0, 2, DefaultDialTimeout, DefaultDialTimeout + 1}

\* int(timeout.Seconds()*10 + 9): a tenth of a second is two units, and the
\* conversion to int drops the fraction
TimeoutRounded(t) == (t \div 2) + 9

\* the keys dialMap can get
Buckets == { TimeoutRounded(IF t <= 0 THEN DefaultDialTimeout ELSE t) : t \in Timeouts }

\* resolveTCPAddrs without its test of len(addrs) == 0
ResolverAnswers_MayBeEmpty == { [i \in 1..k |-> i] : k \in 0..MaxAddrs }

\* what resolveTCPAddrs can return: a non-empty slice of addresses
ResolverAnswers == { [i \in 1..k |-> i] : k \in 1..MaxAddrs }

VARIABLES
    now,            \* time.Now(), in minutes
    tcpAddrsMap,    \* d.tcpAddrsMap: host -> *tcpAddrEntry (Nil: no key)
    entries,        \* the tcpAddrEntry objects ever allocated, by pointer
    wakeups,        \* history: parity of the wake-ups of tcpAddrsClean
    concurrencyCh,  \* d.concurrencyCh: number of tokens in the channel
    workers,        \* the goroutines started at tcpdialer.go:168
    chans,          \* the dialResult channels: chans[i] is channel i's buffer
    dialResultChanPool, \* channels held by the sync.Pool
    pc,             \* where each caller is
    op,             \* which function the caller called
    addr,           \* its argument
    e,              \* getTCPAddrs' local e
    addrs, idx, n,  \* newDial's locals
    expired,        \* time.Now() is past the call's deadline
    ch,             \* tryDial's local ch
    res,            \* what the call returned
    ncalls,         \* calls started so far
    tried,          \* history: the attempts of the current Dial call: the address
                    \* index a, the result r, whether the channel came from the pool
    served,         \* history: the (entry, idx) pairs getTCPAddrs returned
    marked,         \* history: the entry whose pending flag this call set
    during,         \* history: the entries under refresh when this call looked up
    uri,            \* a uri.URI object
    ops,            \* history: the calls made on uri since (and with) the last Parse
    resp,           \* what the proxy answered to the request it read
    bufs,           \* the byte buffers the callers handed in: bufs[k] is the
                    \* backing array of the argument of ops[k], as it is now
    fullAt,         \* where uri.full is stored: [buf |-> k, off |-> offset in
                    \* bufs[k]], or buf = 0 for memory the URI allocated itself
    rebuilt,        \* history: the last call on uri rebuilt full and re-parsed
    dialMap,        \* dialMap: timeoutRounded -> DialFunc (Nil: no key)
    dialMapLock,    \* dialMapLock: the caller holding it, 0 when unlocked
    dialerStd,      \* dialerStd: its once, and the identities of the
                    \* concurrencyCh and the tcpAddrsMap made for it (0: nil)
    dialFuncs,      \* the closures newDial has returned, by identity
    reapers,        \* number of tcpAddrsClean goroutines started
    gpc,            \* where each caller of getDialer is
    timeout,        \* getDialer's parameter timeout, in units of 50 ms
    timeoutRounded, \* getDialer's local timeoutRounded
    dfunc,          \* getDialer's local d
    ngets,          \* getDialer calls started so far
    got             \* history: the (timeoutRounded, DialFunc) pairs returned

dnsVars == <<now, tcpAddrsMap, entries, wakeups>>
dialVars == <<concurrencyCh, workers, chans, dialResultChanPool>>
localVars == <<pc, op, addr, e, addrs, idx, n, expired, ch, res, ncalls>>
histVars == <<tried, served, marked, during>>
bufVars == <<bufs, fullAt, rebuilt>>
uriVars == <<uri, ops, resp, bufVars>>
getVars == <<dialMap, dialMapLock, dialerStd, dialFuncs, reapers, gpc, timeout,
             timeoutRounded, dfunc, ngets, got>>
vars == <<dnsVars, dialVars, localVars, histVars, uriVars, getVars>>

NoWorker == [st |-> "none", owner |-> 0, ch |-> 0, ok |-> FALSE]
MaxWorkers == maxDialConcurrency + 1
MaxChans == MaxWorkers + NumCallers

\* HostInfo after reset
ZeroHostInfo == [domain |-> <<>>, port |-> <<>>, hostWithPort |-> <<>>,
                 targetWithPort |-> <<>>]

\* the URI after Reset (and the zero value)
ZeroURI == [isConnect |-> FALSE, full |-> <<>>, scheme |-> <<>>, host |-> <<>>,
            path |-> <<>>, queries |-> <<>>, fragments |-> <<>>,
            hostInfo |-> ZeroHostInfo,
            pathWithQueryFragment |-> <<>>,
            pathWithQueryFragmentParsed |-> FALSE]

Init ==
    /\ now = 0
    /\ tcpAddrsMap = [h \in Hosts |-> Nil]
    /\ entries = <<>>
    /\ wakeups = 0
    /\ concurrencyCh = 0
    /\ workers = [w \in 1..MaxWorkers |-> NoWorker]
    /\ chans = [i \in 1..MaxChans |-> <<>>]
    /\ dialResultChanPool = {}
    /\ pc = [c \in Callers |-> "idle"]
    /\ op = [c \in Callers |-> "none"]
    /\ addr = [c \in Callers |-> "a.test:80"]
    /\ e = [c \in Callers |-> Nil]
    /\ addrs = [c \in Callers |-> <<>>]
    /\ idx = [c \in Callers |-> 0]
    /\ n = [c \in Callers |-> 0]
    /\ expired = [c \in Callers |-> FALSE]
    /\ ch = [c \in Callers |-> Nil]
    /\ res = [c \in Callers |-> "none"]
    /\ ncalls = 0
    /\ tried = [c \in Callers |-> <<>>]
    /\ served = <<>>
    /\ marked = [c \in Callers |-> Nil]
    /\ during = [c \in Callers |-> {}]
    /\ uri = ZeroURI
    /\ ops = <<>>
    /\ resp = "none"
    /\ bufs = <<>>
    /\ fullAt = [buf |-> 0, off |-> 0]
    /\ rebuilt = FALSE
    /\ dialMap = [k \in Buckets |-> Nil]
    /\ dialMapLock = 0
    /\ dialerStd = [once |-> FALSE, concurrencyCh |-> Nil, tcpAddrsMap |-> Nil]
    /\ dialFuncs = <<>>
    /\ reapers = 0
    /\ gpc = [c \in Callers |-> "idle"]
    /\ timeout = [c \in Callers |-> DefaultDialTimeout]
    /\ timeoutRounded = [c \in Callers |-> TimeoutRounded(DefaultDialTimeout)]
    /\ dfunc = [c \in Callers |-> Nil]
    /\ ngets = 0
    /\ got = {}

\* ---------------------------------------------------------------- DNS cache

\* time.Since(e.resolveTime)
Age(m) == now - entries[m].resolveTime

\* callers that have set pending on an entry of host h and whose
\* re-resolution has not yet stored its result or handled its error
Refreshers(h) ==
    { r \in Callers : /\ marked[r] # Nil
                      /\ addr[r] = h
                      /\ pc[r] \in {"resolve", "resolveFail", "store"} }

\* a goroutine calls the DialFunc / getTCPAddrs with host h
Call(c, f, h) ==
    /\ pc[c] \in {"idle", "returned"}
    /\ ncalls < (IF f = "Dial" THEN MaxDials ELSE MaxLookups)
    /\ pc' = [pc EXCEPT ![c] = "lookup"]
    /\ op' = [op EXCEPT ![c] = f]
    /\ addr' = [addr EXCEPT ![c] = h]
    /\ ncalls' = ncalls + 1
    /\ res' = [res EXCEPT ![c] = "none"]
    /\ e' = [e EXCEPT ![c] = Nil]
    /\ addrs' = [addrs EXCEPT ![c] = <<>>]
    /\ idx' = [idx EXCEPT ![c] = 0]
    /\ n' = [n EXCEPT ![c] = 0]
    /\ expired' = [expired EXCEPT ![c] = FALSE]
    /\ ch' = [ch EXCEPT ![c] = Nil]
    /\ tried' = [tried EXCEPT ![c] = <<>>]
    /\ marked' = [marked EXCEPT ![c] = Nil]
    /\ during' = [during EXCEPT ![c] = {}]
    /\ workers' = [w \in 1..MaxWorkers |->
          IF workers[w].st # "none" /\ workers[w].owner = c
          THEN [workers[w] EXCEPT !.owner = 0] ELSE workers[w]]
    /\ chans' = [i \in 1..MaxChans |->
          IF chans[i] # <<>> /\ chans[i][1].by = c
          THEN <<[chans[i][1] EXCEPT !.by = 0]>> ELSE chans[i]]
    /\ UNCHANGED <<uriVars, getVars, dnsVars, concurrencyCh, dialResultChanPool, served>>

\* getTCPAddrs, first critical section
Lookup(c) ==
    /\ pc[c] = "lookup"
    /\ LET m == tcpAddrsMap[addr[c]]
           stale == /\ m # Nil
                    /\ ~entries[m].pending
                    /\ Age(m) > DefaultDNSCacheDuration
       IN /\ entries' = IF stale THEN [entries EXCEPT ![m].pending = TRUE]
                                 ELSE entries
          /\ e' = [e EXCEPT ![c] = IF stale THEN Nil ELSE m]
          /\ marked' = [marked EXCEPT ![c] = IF stale THEN m ELSE Nil]
          /\ pc' = [pc EXCEPT ![c] = IF stale \/ m = Nil THEN "resolve" ELSE "addIdx"]
    /\ during' = [during EXCEPT ![c] = { marked[r] : r \in Refreshers(addr[c]) \ {c} }]
    /\ UNCHANGED <<uriVars, getVars, now, wakeups, tcpAddrsMap, dialVars, op, addr, addrs, idx, n, expired,
                   ch, res, ncalls, tried, served>>

\* resolveTCPAddrs returns addresses; the new entry is built with time.Now()
ResolveOk(c, as) ==
    /\ pc[c] = "resolve"
    /\ Len(entries) < MaxEntries
    /\ entries' = Append(entries, [addrs |-> as, addrsIdx |-> 0,
                                   resolveTime |-> now, pending |-> FALSE])
    /\ e' = [e EXCEPT ![c] = Len(entries) + 1]
    /\ pc' = [pc EXCEPT ![c] = "store"]
    /\ UNCHANGED <<uriVars, getVars, now, wakeups, tcpAddrsMap, dialVars, op, addr, addrs, idx, n, expired,
                   ch, res, ncalls, histVars>>

\* resolveTCPAddrs returns an error
ResolveErr(c) ==
    /\ pc[c] = "resolve"
    /\ pc' = [pc EXCEPT ![c] = "resolveFail"]
    /\ UNCHANGED <<uriVars, getVars, dnsVars, dialVars, op, addr, e, addrs, idx, n, expired,
                   ch, res, ncalls, histVars>>

\* getTCPAddrs, the error path's critical section and return
ResolveFail(c) ==
    /\ pc[c] = "resolveFail"
    /\ LET m == tcpAddrsMap[addr[c]]
       IN entries' = IF m # Nil /\ entries[m].pending
                     THEN [entries EXCEPT ![m].pending = FALSE]
                     ELSE entries
    /\ pc' = [pc EXCEPT ![c] = "returned"]
    /\ res' = [res EXCEPT ![c] = "dnsErr"]
    /\ UNCHANGED <<uriVars, getVars, now, wakeups, tcpAddrsMap, dialVars, op, addr, e, addrs, idx, n, expired,
                   ch, ncalls, histVars>>

\* getTCPAddrs, the critical section that stores the new entry
Store(c) ==
    /\ pc[c] = "store"
    /\ tcpAddrsMap' = [tcpAddrsMap EXCEPT ![addr[c]] = e[c]]
    /\ pc' = [pc EXCEPT ![c] = "addIdx"]
    /\ UNCHANGED <<uriVars, getVars, now, wakeups, entries, dialVars, op, addr, e, addrs, idx, n, expired,
                   ch, res, ncalls, histVars>>

\* atomic.AddUint32(&e.addrsIdx, 1)
AddUint32(v) == (v + 1) % IdxMod

\* AddIdx with the incremented index not written back to the entry
AddIdx_LostUpdate(c) ==
    /\ pc[c] = "addIdx"
    /\ idx' = [idx EXCEPT ![c] = AddUint32(entries[e[c]].addrsIdx)]
    /\ served' = Append(served, [ent |-> e[c], idx |-> AddUint32(entries[e[c]].addrsIdx)])
    /\ addrs' = [addrs EXCEPT ![c] = entries[e[c]].addrs]
    /\ n' = [n EXCEPT ![c] = Len(entries[e[c]].addrs)]
    /\ expired' = [expired EXCEPT ![c] = FALSE]
    /\ pc' = [pc EXCEPT ![c] =
                IF op[c] = "Dial" /\ Len(entries[e[c]].addrs) > 0
                THEN "tryDial" ELSE "returned"]
    /\ res' = [res EXCEPT ![c] =
                 IF op[c] # "Dial" THEN "addrs"
                 ELSE IF Len(entries[e[c]].addrs) > 0 THEN "none" ELSE "nilnil"]
    /\ UNCHANGED <<uriVars, getVars, dnsVars, dialVars, op, addr, e, ch, ncalls,
                   tried, marked, during>>

\* getTCPAddrs' last two lines; for a Dial, newDial's locals n and deadline
\* and the first test of `for n > 0`: with no address the DialFunc returns
\* (nil, err) with the nil err of getTCPAddrs, the result "nilnil"
AddIdx(c) ==
    /\ pc[c] = "addIdx"
    /\ LET i == AddUint32(entries[e[c]].addrsIdx)
       IN /\ entries' = [entries EXCEPT ![e[c]].addrsIdx = i]
          /\ idx' = [idx EXCEPT ![c] = i]
          /\ served' = Append(served, [ent |-> e[c], idx |-> i])
    /\ addrs' = [addrs EXCEPT ![c] = entries[e[c]].addrs]
    /\ n' = [n EXCEPT ![c] = Len(entries[e[c]].addrs)]
    /\ expired' = [expired EXCEPT ![c] = FALSE]
    /\ pc' = [pc EXCEPT ![c] =
                IF op[c] = "Dial" /\ Len(entries[e[c]].addrs) > 0
                THEN "tryDial" ELSE "returned"]
    /\ res' = [res EXCEPT ![c] =
                 IF op[c] # "Dial" THEN "addrs"
                 ELSE IF Len(entries[e[c]].addrs) > 0 THEN "none" ELSE "nilnil"]
    /\ UNCHANGED <<uriVars, getVars, now, wakeups, tcpAddrsMap, dialVars, op, addr, e, ch, ncalls,
                   tried, marked, during>>

\* Reap sparing the entries that are under refresh
Reap_SkipsPending ==
    /\ \E h \in Hosts : tcpAddrsMap[h] # Nil
    /\ tcpAddrsMap' = [h \in Hosts |->
          IF /\ tcpAddrsMap[h] # Nil
             /\ Age(tcpAddrsMap[h]) > 2 * DefaultDNSCacheDuration
             /\ ~entries[tcpAddrsMap[h]].pending
          THEN Nil ELSE tcpAddrsMap[h]]
    /\ wakeups' = 1 - wakeups
    /\ UNCHANGED <<uriVars, getVars, now, entries, dialVars, localVars, histVars>>

\* one wake-up of tcpAddrsClean
Reap ==
    /\ \E h \in Hosts : tcpAddrsMap[h] # Nil
    /\ tcpAddrsMap' = [h \in Hosts |->
          IF tcpAddrsMap[h] # Nil /\ Age(tcpAddrsMap[h]) > 2 * DefaultDNSCacheDuration
          THEN Nil ELSE tcpAddrsMap[h]]
    /\ wakeups' = 1 - wakeups
    /\ UNCHANGED <<uriVars, getVars, now, entries, dialVars, localVars, histVars>>

\* a minute passes
Tick ==
    /\ now < MaxTime
    /\ now' = now + 1
    /\ UNCHANGED <<uriVars, getVars, tcpAddrsMap, entries, wakeups, dialVars, localVars, histVars>>

\* ------------------------------------------------- callers of getTCPAddrs
NextDNS ==
    \/ \E c \in Callers, h \in Hosts : Call(c, "getTCPAddrs", h)
    \/ \E c \in Callers : Lookup(c)
    \/ \E c \in Callers, as \in ResolverAnswers : ResolveOk(c, as)
    \/ \E c \in Callers : ResolveErr(c)
    \/ \E c \in Callers : ResolveFail(c)
    \/ \E c \in Callers : Store(c)
    \/ \E c \in Callers : AddIdx(c)
    \/ Reap
    \/ Tick

SpecDNS == Init /\ [][NextDNS]_vars

\* ------------------------------------------------------------------ tryDial

\* channels nothing refers to any more: make(chan dialResult, 1) may use one
FreeChans ==
    { i \in 1..MaxChans :
        /\ i \notin dialResultChanPool
        /\ \A c \in Callers : ch[c] # i
        /\ \A w \in 1..MaxWorkers : workers[w].st = "none" \/ workers[w].ch # i }

FreeWorkers == { w \in 1..MaxWorkers : workers[w].st = "none" }

Min(S) == CHOOSE x \in S : \A y \in S : x <= y

\* the address newDial hands to tryDial: &addrs[idx%n] (0-based)
AddrIndex(c) == idx[c] % n[c]

\* newDial's loop body after tryDial returned r: the values of pc, res, idx, n
LoopAfter(c, r) ==
    /\ tried' = [tried EXCEPT ![c][Len(tried[c])].r = r]
    /\ IF r = "ok"
       THEN /\ pc' = [pc EXCEPT ![c] = "returned"]
            /\ res' = [res EXCEPT ![c] = "conn"]
            /\ UNCHANGED <<uriVars, getVars, idx, n>>
       ELSE IF r = "timeout"
       THEN /\ pc' = [pc EXCEPT ![c] = "returned"]
            /\ res' = [res EXCEPT ![c] = "timeout"]
            /\ UNCHANGED <<uriVars, getVars, idx, n>>
       ELSE /\ idx' = [idx EXCEPT ![c] = (@ + 1) % IdxMod]
            /\ n' = [n EXCEPT ![c] = @ - 1]
            /\ pc' = [pc EXCEPT ![c] = IF n[c] - 1 > 0 THEN "tryDial" ELSE "returned"]
            /\ res' = [res EXCEPT ![c] = IF n[c] - 1 > 0 THEN "none" ELSE "dialErr"]

\* the deadline of c's Dial passes
DeadlinePasses(c) ==
    /\ pc[c] \in {"tryDial", "acquire", "waitSlot", "check", "waitResult"}
    /\ ~expired[c]
    /\ expired' = [expired EXCEPT ![c] = TRUE]
    /\ UNCHANGED <<uriVars, getVars, dnsVars, dialVars, pc, op, addr, e, addrs, idx, n, ch, res,
                   ncalls, histVars>>

\* tryDial is called and the deadline is already over
TryDialLate(c) ==
    /\ pc[c] = "tryDial"
    /\ expired[c]
    /\ tried' = [tried EXCEPT ![c] = Append(@, [a |-> AddrIndex(c), r |-> "timeout", pooled |-> FALSE])]
    /\ pc' = [pc EXCEPT ![c] = "returned"]
    /\ res' = [res EXCEPT ![c] = "timeout"]
    /\ UNCHANGED <<uriVars, getVars, dnsVars, dialVars, op, addr, e, addrs, idx, n, expired, ch,
                   ncalls, served, marked, during>>

\* tryDial is called in time
TryDialEnter(c) ==
    /\ pc[c] = "tryDial"
    /\ ~expired[c]
    /\ tried' = [tried EXCEPT ![c] = Append(@, [a |-> AddrIndex(c), r |-> "pending", pooled |-> FALSE])]
    /\ pc' = [pc EXCEPT ![c] = "acquire"]
    /\ UNCHANGED <<uriVars, getVars, dnsVars, dialVars, op, addr, e, addrs, idx, n, expired, ch, res,
                   ncalls, served, marked, during>>

\* Acquire with the wait for a slot left out: a full concurrencyCh does not
\* stop the caller
Acquire_NoWait(c) ==
    /\ pc[c] = "acquire"
    /\ concurrencyCh' = IF concurrencyCh < maxDialConcurrency
                        THEN concurrencyCh + 1 ELSE concurrencyCh
    /\ pc' = [pc EXCEPT ![c] = "check"]
    /\ UNCHANGED <<uriVars, getVars, dnsVars, workers, chans, dialResultChanPool, op, addr, e,
                   addrs, idx, n, expired, ch, res, ncalls, histVars>>

\* the first select: send on concurrencyCh, or default
Acquire(c) ==
    /\ pc[c] = "acquire"
    /\ IF concurrencyCh < maxDialConcurrency
       THEN /\ concurrencyCh' = concurrencyCh + 1
            /\ pc' = [pc EXCEPT ![c] = "check"]
       ELSE /\ pc' = [pc EXCEPT ![c] = "waitSlot"]
            /\ UNCHANGED concurrencyCh
    /\ UNCHANGED <<uriVars, getVars, dnsVars, workers, chans, dialResultChanPool, op, addr, e, addrs,
                   idx, n, expired, ch, res, ncalls, histVars>>

\* the second select, case concurrencyCh <- struct{}{}
WaitSlotAcquire(c) ==
    /\ pc[c] = "waitSlot"
    /\ concurrencyCh < maxDialConcurrency
    /\ concurrencyCh' = concurrencyCh + 1
    /\ pc' = [pc EXCEPT ![c] = "check"]
    /\ UNCHANGED <<uriVars, getVars, dnsVars, workers, chans, dialResultChanPool, op, addr, e, addrs,
                   idx, n, expired, ch, res, ncalls, histVars>>

\* the second select, case <-tc.C
WaitSlotTimeout(c) ==
    /\ pc[c] = "waitSlot"
    /\ expired[c]
    /\ LoopAfter(c, "timeout")
    /\ UNCHANGED <<uriVars, getVars, dnsVars, dialVars, op, addr, e, addrs, expired, ch, ncalls,
                   served, marked, during>>

\* CheckLate returning ErrDialTimeout without giving the slot back
CheckLate_NoRelease(c) ==
    /\ pc[c] = "check"
    /\ expired[c]
    /\ LoopAfter(c, "timeout")
    /\ UNCHANGED <<uriVars, getVars, dnsVars, dialVars, op, addr, e, addrs,
                   expired, ch, ncalls, served, marked, during>>

\* the deadline is over once the slot is held: give the slot back
CheckLate(c) ==
    /\ pc[c] = "check"
    /\ expired[c]
    /\ concurrencyCh > 0
    /\ concurrencyCh' = concurrencyCh - 1
    /\ LoopAfter(c, "timeout")
    /\ UNCHANGED <<uriVars, getVars, dnsVars, workers, chans, dialResultChanPool, op, addr, e, addrs,
                   expired, ch, ncalls, served, marked, during>>

\* dialResultChanPool.Get() gave channel i, or nil and i is made; the worker
\* goroutine is started
StartWorker(c, i) ==
    /\ pc[c] = "check"
    /\ ~expired[c]
    /\ i \in dialResultChanPool \/ (FreeChans # {} /\ i = Min(FreeChans))
    /\ FreeWorkers # {}
    /\ dialResultChanPool' = dialResultChanPool \ {i}
    /\ chans' = IF i \in dialResultChanPool THEN chans ELSE [chans EXCEPT ![i] = <<>>]
    /\ workers' = [workers EXCEPT ![Min(FreeWorkers)] =
                      [st |-> "dial", owner |-> c, ch |-> i, ok |-> FALSE]]
    /\ ch' = [ch EXCEPT ![c] = i]
    /\ pc' = [pc EXCEPT ![c] = "waitResult"]
    /\ tried' = [tried EXCEPT ![c][Len(tried[c])].pooled = (i \in dialResultChanPool)]
    /\ UNCHANGED <<uriVars, getVars, dnsVars, concurrencyCh, op, addr, e, addrs, idx, n, expired, res,
                   ncalls, served, marked, during>>

\* net.DialTCP returns in worker w, with a connection (ok) or an error
ConnectDone(w, ok) ==
    /\ workers[w].st = "dial"
    /\ workers' = [workers EXCEPT ![w].st = "send", ![w].ok = ok]
    /\ UNCHANGED <<uriVars, getVars, dnsVars, concurrencyCh, chans, dialResultChanPool, localVars,
                   histVars>>

\* ch <- dr in worker w (the channel's capacity is 1)
WorkerSend(w) ==
    /\ workers[w].st = "send"
    /\ chans[workers[w].ch] = <<>>
    /\ chans' = [chans EXCEPT ![workers[w].ch] =
                    <<[ok |-> workers[w].ok, by |-> workers[w].owner]>>]
    /\ workers' = [workers EXCEPT ![w].st = "release"]
    /\ UNCHANGED <<uriVars, getVars, dnsVars, concurrencyCh, dialResultChanPool, localVars, histVars>>

\* <-concurrencyCh in worker w, which then ends
WorkerRelease(w) ==
    /\ workers[w].st = "release"
    /\ concurrencyCh > 0
    /\ concurrencyCh' = concurrencyCh - 1
    /\ workers' = [workers EXCEPT ![w] = NoWorker]
    /\ UNCHANGED <<uriVars, getVars, dnsVars, chans, dialResultChanPool, localVars, histVars>>

\* the last select, case dr := <-ch, and dialResultChanPool.Put(ch)
RecvResult(c) ==
    /\ pc[c] = "waitResult"
    /\ chans[ch[c]] # <<>>
    /\ chans' = [chans EXCEPT ![ch[c]] = <<>>]
    /\ dialResultChanPool' = dialResultChanPool \cup {ch[c]}
    /\ ch' = [ch EXCEPT ![c] = Nil]
    /\ LoopAfter(c, IF chans[ch[c]][1].ok THEN "ok" ELSE "err")
    /\ UNCHANGED <<uriVars, getVars, dnsVars, concurrencyCh, workers, op, addr, e, addrs, expired,
                   ncalls, served, marked, during>>

\* ResultTimeout handing the channel back to the pool as the other case does
ResultTimeout_PutsBack(c) ==
    /\ pc[c] = "waitResult"
    /\ expired[c]
    /\ dialResultChanPool' = dialResultChanPool \cup {ch[c]}
    /\ ch' = [ch EXCEPT ![c] = Nil]
    /\ LoopAfter(c, "timeout")
    /\ UNCHANGED <<uriVars, getVars, dnsVars, concurrencyCh, workers, chans, op, addr, e, addrs,
                   expired, ncalls, served, marked, during>>

\* the last select, case <-tc.C
ResultTimeout(c) ==
    /\ pc[c] = "waitResult"
    /\ expired[c]
    /\ ch' = [ch EXCEPT ![c] = Nil]
    /\ LoopAfter(c, "timeout")
    /\ UNCHANGED <<uriVars, getVars, dnsVars, dialVars, op, addr, e, addrs, expired, ncalls,
                   served, marked, during>>

\* sync.Pool drops an idle channel
PoolDrop(i) ==
    /\ i \in dialResultChanPool
    /\ dialResultChanPool' = dialResultChanPool \ {i}
    /\ chans' = [chans EXCEPT ![i] = <<>>]
    /\ UNCHANGED <<uriVars, getVars, dnsVars, concurrencyCh, workers, localVars, histVars>>

\* ------------------------------------------------------ callers of Dial
Next ==
    \/ \E c \in Callers, h \in Hosts : Call(c, "Dial", h)
    \/ \E c \in Callers : Lookup(c)
    \/ \E c \in Callers, as \in ResolverAnswers : ResolveOk(c, as)
    \/ \E c \in Callers : ResolveErr(c)
    \/ \E c \in Callers : ResolveFail(c)
    \/ \E c \in Callers : Store(c)
    \/ \E c \in Callers : AddIdx(c)
    \/ \E c \in Callers : DeadlinePasses(c)
    \/ \E c \in Callers : TryDialLate(c)
    \/ \E c \in Callers : TryDialEnter(c)
    \/ \E c \in Callers : Acquire(c)
    \/ \E c \in Callers : WaitSlotAcquire(c)
    \/ \E c \in Callers : WaitSlotTimeout(c)
    \/ \E c \in Callers : CheckLate(c)
    \/ \E c \in Callers, i \in 1..MaxChans : StartWorker(c, i)
    \/ \E w \in 1..MaxWorkers, ok \in BOOLEAN : ConnectDone(w, ok)
    \/ \E w \in 1..MaxWorkers : WorkerSend(w)
    \/ \E w \in 1..MaxWorkers : WorkerRelease(w)
    \/ \E c \in Callers : RecvResult(c)
    \/ \E c \in Callers : ResultTimeout(c)
    \/ \E i \in 1..MaxChans : PoolDrop(i)

Spec == Init /\ [][Next]_vars

\* ------------------------------------------------------------------ uri.URI
\* A []byte or string is a sequence of one-character strings.

AlnumBytes == {"a", "b", "1"}

\* s[i:] and s[:i] of Go, i counted from 0
From(s, i) == SubSeq(s, i + 1, Len(s))
UpTo(s, i) == SubSeq(s, 1, i)

\* bytes.IndexByte / strings.LastIndexByte: 0-based, -1 when absent
IndexByte(s, b) ==
    IF \E i \in 1..Len(s) : s[i] = b
    THEN (CHOOSE i \in 1..Len(s) : s[i] = b /\ \A j \in 1..(i - 1) : s[j] # b) - 1
    ELSE -1

LastIndexByte(s, b) ==
    IF \E i \in 1..Len(s) : s[i] = b
    THEN (CHOOSE i \in 1..Len(s) : s[i] = b /\ \A j \in (i + 1)..Len(s) : s[j] # b) - 1
    ELSE -1

\* sub occurs in s at 0-based offset i
OccursAt(s, sub, i) ==
    /\ i >= 0
    /\ i + Len(sub) <= Len(s)
    /\ SubSeq(s, i + 1, i + Len(sub)) = sub

\* bytes.Index: the first occurrence of sub in s, -1 when there is none
Index(s, sub) ==
    IF \E i \in 0..Len(s) : OccursAt(s, sub, i)
    THEN CHOOSE i \in 0..Len(s) :
            OccursAt(s, sub, i) /\ \A j \in 0..(i - 1) : ~OccursAt(s, sub, j)
    ELSE -1

\* bytes.Replace(s, old, new, 1) for a non-empty old
Replace1(s, old, new) ==
    IF Index(s, old) < 0 THEN s
    ELSE UpTo(s, Index(s, old)) \o new \o From(s, Index(s, old) + Len(old))

\* getSchemeIndex, scanning from 1-based position i
RECURSIVE SchemeScan(_, _)
SchemeScan(s, i) ==
    IF i > Len(s) THEN -1
    ELSE IF s[i] \in AlnumBytes THEN SchemeScan(s, i + 1)
    ELSE IF s[i] = ":" THEN i - 1
    ELSE -1

getSchemeIndex(rawURL) == SchemeScan(rawURL, 1)

\* net.SplitHostPort: [ok, host, port]
SplitHostPort(hostport) ==
    LET i == LastIndexByte(hostport, ":")
        bad == [ok |-> FALSE, host |-> <<>>, port |-> <<>>]
    IN IF i < 0 THEN bad
       ELSE IF hostport[1] = "["
       THEN LET end == IndexByte(hostport, "]")
            IN IF end < 0 \/ end + 1 # i THEN bad
               ELSE IF IndexByte(From(hostport, 1), "[") >= 0 THEN bad
               ELSE IF IndexByte(From(hostport, end + 1), "]") >= 0 THEN bad
               ELSE [ok |-> TRUE, host |-> SubSeq(hostport, 2, end),
                     port |-> From(hostport, i + 1)]
       ELSE IF IndexByte(UpTo(hostport, i), ":") >= 0 THEN bad
       ELSE IF IndexByte(hostport, "[") >= 0 \/ IndexByte(hostport, "]") >= 0 THEN bad
       ELSE [ok |-> TRUE, host |-> UpTo(hostport, i), port |-> From(hostport, i + 1)]

\* HostInfo.ParseHostWithPort on a reset HostInfo
ParseHostWithPort(host, isHTTPS) ==
    IF Len(host) = 0 THEN ZeroHostInfo
    ELSE LET hasPort == LastIndexByte(host, ":") > LastIndexByte(host, "]")
             sp == SplitHostPort(host)
             domain == IF hasPort THEN sp.host ELSE host
             port == IF hasPort THEN sp.port
                     ELSE IF isHTTPS THEN <<"4", "4", "3">> ELSE <<"8", "0">>
         IN IF hasPort /\ ~sp.ok THEN ZeroHostInfo
            ELSE IF Len(domain) = 0
            THEN [ZeroHostInfo EXCEPT !.port = port]
            ELSE [domain |-> domain, port |-> port,
                  hostWithPort |-> domain \o <<":">> \o port,
                  targetWithPort |-> domain \o <<":">> \o port]

\* the number of leading '/' of s
RECURSIVE LeadingSlashes(_)
LeadingSlashes(s) ==
    IF Len(s) > 0 /\ s[1] = "/" THEN 1 + LeadingSlashes(Tail(s)) ELSE 0

\* ParseWithoutSchemeQueriesFragments without the "only path" case
ParseWithoutSchemeQueriesFragments_NoOnlyPath(scheme, reqURI) ==
    LET r == IF Len(scheme) > 0 /\ Len(reqURI) >= 2
                  /\ reqURI[1] = "/" /\ reqURI[2] = "/"
             THEN From(reqURI, LeadingSlashes(reqURI))
             ELSE reqURI
        hostNameEnd == IndexByte(r, "/")
    IN IF Len(r) = 0 THEN [host |-> <<>>, path |-> <<>>]
       ELSE IF hostNameEnd > 0
       THEN [host |-> UpTo(r, hostNameEnd), path |-> From(r, hostNameEnd)]
       ELSE [host |-> r, path |-> <<>>]

\* parseWithoutSchemeQueriesFragments: [host, path]
ParseWithoutSchemeQueriesFragments(scheme, reqURI) ==
    LET r == IF Len(scheme) > 0 /\ Len(reqURI) >= 2
                  /\ reqURI[1] = "/" /\ reqURI[2] = "/"
             THEN From(reqURI, LeadingSlashes(reqURI))
             ELSE reqURI
        hostNameEnd == IndexByte(r, "/")
    IN IF Len(r) = 0 THEN [host |-> <<>>, path |-> <<>>]
       ELSE IF r[1] = "/" THEN [host |-> <<>>, path |-> r]
       ELSE IF hostNameEnd > 0
       THEN [host |-> UpTo(r, hostNameEnd), path |-> From(r, hostNameEnd)]
       ELSE [host |-> r, path |-> <<>>]

\* parseWithoutQueriesFragments: [scheme, host, path]
ParseWithoutQueriesFragments(reqURI) ==
    LET schemeEnd == getSchemeIndex(reqURI)
        scheme == IF schemeEnd >= 0 THEN UpTo(reqURI, schemeEnd) ELSE <<>>
        rest == IF schemeEnd >= 0 THEN From(reqURI, schemeEnd + 1) ELSE reqURI
        hp == ParseWithoutSchemeQueriesFragments(scheme, rest)
    IN IF Len(reqURI) = 0 THEN [scheme |-> <<>>, host |-> <<>>, path |-> <<>>]
       ELSE [scheme |-> scheme, host |-> hp.host, path |-> hp.path]

\* Parse keeping in full only what precedes the fragment
Parse_FullWithoutFragment(isConnect, reqURI) ==
    IF Len(reqURI) = 0
    THEN [ZeroURI EXCEPT !.isConnect = isConnect]
    ELSE LET fragmentIndex == IndexByte(reqURI, "#")
             fragments == IF fragmentIndex >= 0 THEN From(reqURI, fragmentIndex) ELSE <<>>
             r1 == IF fragmentIndex >= 0 THEN UpTo(reqURI, fragmentIndex) ELSE reqURI
             queryIndex == IndexByte(r1, "?")
             queries == IF queryIndex >= 0 THEN From(r1, queryIndex) ELSE <<>>
             r2 == IF queryIndex >= 0 THEN UpTo(r1, queryIndex) ELSE r1
             shp == ParseWithoutQueriesFragments(r2)
         IN [isConnect |-> isConnect,
             full |-> r1,
             scheme |-> IF isConnect THEN <<>> ELSE shp.scheme,
             host |-> shp.host,
             path |-> IF isConnect THEN <<>>
                      ELSE IF Len(shp.path) = 0 THEN <<"/">> ELSE shp.path,
             queries |-> IF isConnect THEN <<>> ELSE queries,
             fragments |-> IF isConnect THEN <<>> ELSE fragments,
             hostInfo |-> ParseHostWithPort(shp.host, isConnect),
             pathWithQueryFragment |-> <<>>,
             pathWithQueryFragmentParsed |-> FALSE]

\* URI.Parse; it starts with Reset, so nothing of the old URI remains
Parse(isConnect, reqURI) ==
    IF Len(reqURI) = 0
    THEN [ZeroURI EXCEPT !.isConnect = isConnect]
    ELSE LET fragmentIndex == IndexByte(reqURI, "#")
             fragments == IF fragmentIndex >= 0 THEN From(reqURI, fragmentIndex) ELSE <<>>
             r1 == IF fragmentIndex >= 0 THEN UpTo(reqURI, fragmentIndex) ELSE reqURI
             queryIndex == IndexByte(r1, "?")
             queries == IF queryIndex >= 0 THEN From(r1, queryIndex) ELSE <<>>
             r2 == IF queryIndex >= 0 THEN UpTo(r1, queryIndex) ELSE r1
             shp == ParseWithoutQueriesFragments(r2)
         IN [isConnect |-> isConnect,
             full |-> reqURI,
             scheme |-> IF isConnect THEN <<>> ELSE shp.scheme,
             host |-> shp.host,
             path |-> IF isConnect THEN <<>>
                      ELSE IF Len(shp.path) = 0 THEN <<"/">> ELSE shp.path,
             queries |-> IF isConnect THEN <<>> ELSE queries,
             fragments |-> IF isConnect THEN <<>> ELSE fragments,
             hostInfo |-> ParseHostWithPort(shp.host, isConnect),
             pathWithQueryFragment |-> <<>>,
             pathWithQueryFragmentParsed |-> FALSE]

\* URI.PathWithQueryFragment: the URI it leaves (the value it returns is the
\* field pathWithQueryFragment of that URI)
PathWithQueryFragment(u) ==
    IF u.pathWithQueryFragmentParsed THEN u
    ELSE IF u.isConnect
    THEN [u EXCEPT !.pathWithQueryFragment = <<>>, !.pathWithQueryFragmentParsed = TRUE]
    ELSE LET hostIndex == Index(u.full, u.host)
             v == IF Len(u.host) = 0 THEN u.full
                  ELSE IF hostIndex >= 0 THEN From(u.full, hostIndex + Len(u.host))
                  ELSE u.pathWithQueryFragment
         IN [u EXCEPT !.pathWithQueryFragment = IF Len(v) = 0 THEN u.path ELSE v,
                      !.pathWithQueryFragmentParsed = TRUE]

\* URI.ChangeHost
ChangeHost(u, hostWithPort) ==
    IF u.hostInfo.hostWithPort = hostWithPort THEN u
    ELSE LET hostIndex == Index(u.full, u.host)
             newRawURI ==
                 IF Len(u.host) = 0
                 THEN hostWithPort
                      \o (IF Len(u.full) = 0 \/ u.full[1] # "/" THEN <<"/">> ELSE <<>>)
                      \o u.full
                 ELSE IF hostIndex >= 0
                 THEN IF Len(hostWithPort) = 0
                      THEN From(u.full, hostIndex + Len(u.host))
                      ELSE Replace1(u.full, u.host, hostWithPort)
                 ELSE <<>>
         IN Parse(u.isConnect, IF Len(newRawURI) = 0 THEN <<"/">> ELSE newRawURI)

\* URI.ChangePathWithFragment
ChangePathWithFragment(u, newPathWithFragment) ==
    IF u.isConnect THEN u
    ELSE IF newPathWithFragment = PathWithQueryFragment(u).pathWithQueryFragment
    THEN PathWithQueryFragment(u)
    ELSE LET hostIndex == Index(u.full, u.host)
             newRawURI ==
                 IF Len(u.host) = 0 THEN newPathWithFragment
                 ELSE IF hostIndex >= 0
                 THEN UpTo(u.full, hostIndex + Len(u.host))
                      \o (IF Len(newPathWithFragment) = 0 \/ newPathWithFragment[1] # "/"
                          THEN <<"/">> ELSE <<>>)
                      \o newPathWithFragment
                 ELSE <<>>
         IN Parse(u.isConnect, IF Len(newRawURI) = 0 THEN <<"/">> ELSE newRawURI)

\* ---------------------------------------------------------- inputs of the URI
URIBytes == {"a", "1", ":", "/", "?", "#", "."}

\* every byte string of length at most MaxRawLen over URIBytes
ShortStrings == UNION { [1..k -> URIBytes] : k \in 0..MaxRawLen }

\* absolute-form request-targets scheme://host[:port]/path[?query][#fragment]
SchemeInputs == { <<"a">>, <<"b", "1">> }
HostNames == { <<"a">>, <<"b">>, <<"a", ".", "b">>, <<"b", ":", "1">> }
PathParts == { <<"/">>, <<"/", "a">> }
QueryParts == { <<>>, <<"?", "a">> }
FragmentParts == { <<>>, <<"#", "b">> }
AbsoluteForms ==
    { s \o <<":", "/", "/">> \o h \o p \o q \o f :
        s \in SchemeInputs, h \in HostNames, p \in PathParts,
        q \in QueryParts, f \in FragmentParts }

RawInputs == ShortStrings \cup AbsoluteForms

\* arguments of ChangeHost and ChangePathWithFragment
HostInputs == { <<>>, <<"b">>, <<"b", ":", "1">>, <<"a", ".", "b", ":", "1">> }
PathInputs == { <<>>, <<"a">>, <<"/">>, <<"/", "b">>, <<"/", "b", "?", "a">> }

\* ------------------------------------------------- where the bytes are kept
\* A []byte handed to the URI is a slice of a backing array that the caller
\* owns; []byte(string), bytes.Replace and a literal make a new array.

\* memory allocated by the URI's own code
Fresh == [buf |-> 0, off |-> 0]

\* the k bytes of capacity behind a slice, whatever the caller keeps there
SpareBytes(k) == [i \in 1..k |-> "_"]

\* the array s after bytes were copied into it from 0-based offset at
WriteAt(s, at, bytes) ==
    [i \in 1..Len(s) |->
        IF i > at /\ i <= at + Len(bytes) THEN bytes[i - at] ELSE s[i]]

\* append(b, bytes...) for the slice b of length len stored at `at`: within
\* the capacity the bytes are written in place, beyond it a new array is made
AppendTo(bs, at, len, bytes) ==
    IF Len(bytes) = 0 THEN [bufs |-> bs, at |-> at]
    ELSE IF at.buf # 0 /\ at.off + len + Len(bytes) <= Len(bs[at.buf])
    THEN [bufs |-> [bs EXCEPT ![at.buf] = WriteAt(@, at.off + len, bytes)],
          at |-> at]
    ELSE [bufs |-> bs, at |-> Fresh]

\* URI.ChangeHost: where newRawURI is stored
ChangeHostStore(u, hostWithPort, bs, at) ==
    LET hostIndex == Index(u.full, u.host)
        rest == From(u.full, hostIndex + Len(u.host))
    IN IF u.hostInfo.hostWithPort = hostWithPort
       THEN [bufs |-> bs, at |-> at, rebuilt |-> FALSE]
       ELSE IF Len(u.host) # 0 /\ hostIndex >= 0 /\ Len(hostWithPort) = 0
               /\ Len(rest) # 0 /\ at.buf # 0
       THEN [bufs |-> bs,
             at |-> [at EXCEPT !.off = @ + hostIndex + Len(u.host)],
             rebuilt |-> TRUE]
       ELSE [bufs |-> bs, at |-> Fresh, rebuilt |-> TRUE]

\* URI.ChangePathWithFragment: where newRawURI is stored; k is the buffer of
\* the argument
ChangePathStore(u, newPathWithFragment, bs, at, k) ==
    LET hostIndex == Index(u.full, u.host)
        hostEndIndex == hostIndex + Len(u.host)
        slash == IF Len(newPathWithFragment) = 0 \/ newPathWithFragment[1] # "/"
                 THEN <<"/">> ELSE <<>>
        a1 == AppendTo(bs, at, hostEndIndex, slash)
        a2 == AppendTo(a1.bufs, a1.at, hostEndIndex + Len(slash), newPathWithFragment)
    IN IF u.isConnect
          \/ newPathWithFragment = PathWithQueryFragment(u).pathWithQueryFragment
       THEN [bufs |-> bs, at |-> at, rebuilt |-> FALSE]
       ELSE IF Len(u.host) = 0
       THEN [bufs |-> bs,
             at |-> IF Len(newPathWithFragment) = 0 THEN Fresh
                    ELSE [buf |-> k, off |-> 0],
             rebuilt |-> TRUE]
       ELSE IF hostIndex >= 0
       THEN [bufs |-> a2.bufs, at |-> a2.at, rebuilt |-> TRUE]
       ELSE [bufs |-> bs, at |-> Fresh, rebuilt |-> TRUE]

\* Parse on the zero URI; Parse begins with Reset, so a Parse of a used URI
\* leads to the same states. raw is a slice with spare bytes of capacity.
DoParse(isConnect, raw, spare) ==
    /\ ops = <<>>
    /\ uri' = Parse(isConnect, raw)
    /\ ops' = <<[op |-> "Parse", arg |-> raw]>>
    /\ bufs' = <<raw \o SpareBytes(spare)>>
    /\ fullAt' = [buf |-> 1, off |-> 0]
    /\ rebuilt' = FALSE
    /\ UNCHANGED <<resp, dnsVars, dialVars, localVars, histVars, getVars>>

\* the argument is a string: it has no buffer of its own
DoChangeHost(h) ==
    /\ ops # <<>>
    /\ Len(ops) < MaxOps
    /\ uri' = ChangeHost(uri, h)
    /\ ops' = Append(ops, [op |-> "ChangeHost", arg |-> h])
    /\ LET st == ChangeHostStore(uri, h, Append(bufs, <<>>), fullAt)
       IN /\ bufs' = st.bufs
          /\ fullAt' = st.at
          /\ rebuilt' = st.rebuilt
    /\ UNCHANGED <<resp, dnsVars, dialVars, localVars, histVars, getVars>>

\* the argument is a slice of a buffer of the caller's, apart from raw
DoChangePathWithFragment(p) ==
    /\ ops # <<>>
    /\ Len(ops) < MaxOps
    /\ uri' = ChangePathWithFragment(uri, p)
    /\ ops' = Append(ops, [op |-> "ChangePathWithFragment", arg |-> p])
    /\ LET st == ChangePathStore(uri, p, Append(bufs, p), fullAt, Len(ops) + 1)
       IN /\ bufs' = st.bufs
          /\ fullAt' = st.at
          /\ rebuilt' = st.rebuilt
    /\ UNCHANGED <<resp, dnsVars, dialVars, localVars, histVars, getVars>>

DoPathWithQueryFragment ==
    /\ ops # <<>>
    /\ uri' = PathWithQueryFragment(uri)
    /\ UNCHANGED <<ops, resp, bufVars, dnsVars, dialVars, localVars, histVars, getVars>>

NextURI ==
    \/ \E ic \in BOOLEAN, raw \in RawInputs, spare \in 0..MaxSpare :
          DoParse(ic, raw, spare)
    \/ \E h \in HostInputs : DoChangeHost(h)
    \/ \E p \in PathInputs : DoChangePathWithFragment(p)
    \/ DoPathWithQueryFragment

SpecURI == Init /\ [][NextURI]_vars

\* ------------------------------------------------- callers of Parse alone
NextParse ==
    \E ic \in BOOLEAN, raw \in RawInputs, spare \in 0..MaxSpare :
        DoParse(ic, raw, spare)

SpecParse == Init /\ [][NextParse]_vars

\* ------------------------------------------------------- the proxy's front
\* The proxy reads a plain request without Host header whose request-target
\* is target, parses the target and looks at its HostInfo: without a
\* HostWithPort there is nothing to dial and the answer is 400 Bad Request;
\* otherwise the request is forwarded to HostWithPort.
ServeNoHostHeader(target) ==
    /\ ops = <<>>
    /\ uri' = Parse(FALSE, target)
    /\ ops' = <<[op |-> "Serve", arg |-> target]>>
    /\ resp' = IF Parse(FALSE, target).hostInfo.hostWithPort = <<>>
               THEN "400" ELSE "forwarded"
    /\ bufs' = <<target>>
    /\ fullAt' = [buf |-> 1, off |-> 0]
    /\ rebuilt' = FALSE
    /\ UNCHANGED <<dnsVars, dialVars, localVars, histVars, getVars>>

NextServe ==
    \E target \in RawInputs : ServeNoHostHeader(target)

SpecServe == Init /\ [][NextServe]_vars

\* ---------------------------------------------------------------- getDialer
\* The dialer's variables above describe dialerStd once its once function has
\* run; dialerStd, dialMap and reapers follow the getDialer calls that get it
\* there. Every step here leaves the dialer's and the URI's variables alone.
OthersUnchanged == UNCHANGED <<dnsVars, dialVars, localVars, histVars, uriVars>>

\* a goroutine calls getDialer(t): the default for t <= 0, the rounding, and
\* m := dialMap (the map itself is never reassigned)
GetDialer(c, t) ==
    /\ gpc[c] \in {"idle", "done"}
    /\ ngets < MaxGets
    /\ ngets' = ngets + 1
    /\ LET to == IF t <= 0 THEN DefaultDialTimeout ELSE t
       IN /\ timeout' = [timeout EXCEPT ![c] = to]
          /\ timeoutRounded' = [timeoutRounded EXCEPT ![c] = TimeoutRounded(to)]
    /\ dfunc' = [dfunc EXCEPT ![c] = Nil]
    /\ gpc' = [gpc EXCEPT ![c] = "lock"]
    /\ UNCHANGED <<dialMap, dialMapLock, dialerStd, dialFuncs, reapers, got>>
    /\ OthersUnchanged

\* LockDialMap taking the mutex whether or not it is held
LockDialMap_NoExclusion(c) ==
    /\ gpc[c] = "lock"
    /\ dialMapLock' = c
    /\ gpc' = [gpc EXCEPT ![c] = "lookup"]
    /\ UNCHANGED <<dialMap, dialerStd, dialFuncs, reapers, timeout, timeoutRounded,
                   dfunc, ngets, got>>
    /\ OthersUnchanged

\* dialMapLock.Lock()
LockDialMap(c) ==
    /\ gpc[c] = "lock"
    /\ dialMapLock = 0
    /\ dialMapLock' = c
    /\ gpc' = [gpc EXCEPT ![c] = "lookup"]
    /\ UNCHANGED <<dialMap, dialerStd, dialFuncs, reapers, timeout, timeoutRounded,
                   dfunc, ngets, got>>
    /\ OthersUnchanged

\* d := m[timeoutRounded]; if d == nil
LookupDialMap(c) ==
    /\ gpc[c] = "lookup"
    /\ dfunc' = [dfunc EXCEPT ![c] = dialMap[timeoutRounded[c]]]
    /\ gpc' = [gpc EXCEPT ![c] =
                 IF dialMap[timeoutRounded[c]] = Nil THEN "newDial" ELSE "unlock"]
    /\ UNCHANGED <<dialMap, dialMapLock, dialerStd, dialFuncs, reapers, timeout,
                   timeoutRounded, ngets, got>>
    /\ OthersUnchanged

\* d = dialer.newDial(timeout): d.once.Do runs its function if it has not
\* run yet, then the closure over d and timeout is returned
NewDial(c) ==
    /\ gpc[c] = "newDial"
    /\ IF dialerStd.once
       THEN UNCHANGED <<dialerStd, reapers>>
       ELSE /\ dialerStd' = [once |-> TRUE,
                             concurrencyCh |-> reapers + 1,
                             tcpAddrsMap |-> reapers + 1]
            /\ reapers' = reapers + 1
    /\ dialFuncs' = Append(dialFuncs, [timeout |-> timeout[c],
                                       key |-> timeoutRounded[c],
                                       concurrencyCh |-> dialerStd'.concurrencyCh,
                                       tcpAddrsMap |-> dialerStd'.tcpAddrsMap])
    /\ dfunc' = [dfunc EXCEPT ![c] = Len(dialFuncs) + 1]
    /\ gpc' = [gpc EXCEPT ![c] = "store"]
    /\ UNCHANGED <<dialMap, dialMapLock, timeout, timeoutRounded, ngets, got>>
    /\ OthersUnchanged

\* m[timeoutRounded] = d
StoreDialer(c) ==
    /\ gpc[c] = "store"
    /\ dialMap' = [dialMap EXCEPT ![timeoutRounded[c]] = dfunc[c]]
    /\ gpc' = [gpc EXCEPT ![c] = "unlock"]
    /\ UNCHANGED <<dialMapLock, dialerStd, dialFuncs, reapers, timeout, timeoutRounded,
                   dfunc, ngets, got>>
    /\ OthersUnchanged

\* dialMapLock.Unlock(); return d
UnlockDialMap(c) ==
    /\ gpc[c] = "unlock"
    /\ dialMapLock' = 0
    /\ got' = got \cup {<<timeoutRounded[c], dfunc[c]>>}
    /\ gpc' = [gpc EXCEPT ![c] = "done"]
    /\ UNCHANGED <<dialMap, dialerStd, dialFuncs, reapers, timeout, timeoutRounded,
                   dfunc, ngets>>
    /\ OthersUnchanged

NextGetDialer ==
    \/ \E c \in Callers, t \in Timeouts : GetDialer(c, t)
    \/ \E c \in Callers : LockDialMap(c)
    \/ \E c \in Callers : LookupDialMap(c)
    \/ \E c \in Callers : NewDial(c)
    \/ \E c \in Callers : StoreDialer(c)
    \/ \E c \in Callers : UnlockDialMap(c)

SpecGetDialer == Init /\ [][NextGetDialer]_vars

\* The goroutine scheduler runs every goroutine that can take a step, and time
\* passes, so a deadline timer fires. Nothing is assumed of the resolver
\* (ResolveOk, ResolveErr), the network (ConnectDone) or the clients (Call).
Fairness ==
    /\ \A c \in Callers :
          /\ WF_vars(Lookup(c))
          /\ WF_vars(ResolveFail(c))
          /\ WF_vars(Store(c))
          /\ WF_vars(AddIdx(c))
          /\ WF_vars(DeadlinePasses(c))
          /\ WF_vars(TryDialLate(c))
          /\ WF_vars(TryDialEnter(c))
          /\ WF_vars(Acquire(c))
          /\ WF_vars(WaitSlotAcquire(c))
          /\ WF_vars(WaitSlotTimeout(c))
          /\ WF_vars(CheckLate(c))
          /\ WF_vars(\E i \in 1..MaxChans : StartWorker(c, i))
          /\ WF_vars(RecvResult(c))
          /\ WF_vars(ResultTimeout(c))
    /\ \A w \in 1..MaxWorkers :
          /\ WF_vars(WorkerSend(w))
          /\ WF_vars(WorkerRelease(w))

SpecLive == Init /\ [][Next]_vars /\ Fairness

\* ==================================================================== claims

\* net.DialTCP calls that have started and not returned
InFlight == Cardinality({ w \in 1..MaxWorkers : workers[w].st = "dial" })

\* worker goroutines that have not ended
Running == Cardinality({ w \in 1..MaxWorkers : workers[w].st # "none" })

\* C1: at no instant do more than maxDialConcurrency net.DialTCP calls run:
\* every worker that has not ended holds a slot of concurrencyCh (it was
\* started by a caller holding one and gives it back only after DialTCP has
\* returned), and the channel never holds more than its capacity.
C1_DialConcurrency ==
    /\ InFlight <= maxDialConcurrency
    /\ Running <= concurrencyCh
    /\ concurrencyCh <= maxDialConcurrency

\* C1's case: the limit is reached and a caller waits for a slot
C1_Witness ==
    /\ InFlight = maxDialConcurrency
    /\ \E c \in Callers : pc[c] = "waitSlot"

\* the address indices a call has attempted
TriedSet(c) == { tried[c][i].a : i \in 1..Len(tried[c]) }

\* C3: a Dial over n addresses whose attempts all fail with an error other
\* than ErrDialTimeout has attempted each of the n addresses exactly once.
C3_EachAddressOnce ==
    \A c \in Callers :
        (pc[c] = "returned" /\ res[c] = "dialErr") =>
            /\ Len(tried[c]) = Len(addrs[c])
            /\ TriedSet(c) = 0..(Len(addrs[c]) - 1)

\* C5: within a Dial, an attempt is followed by another only if it failed
\* with an error other than ErrDialTimeout, and then the next attempt is on
\* the next address; a timeout or a connection ends the call with that result.
C5_TimeoutAbortsErrorRotates ==
    \A c \in Callers :
        /\ \A i \in 1..(Len(tried[c]) - 1) :
              /\ tried[c][i].r = "err"
              /\ tried[c][i + 1].a = (tried[c][i].a + 1) % Len(addrs[c])
        /\ (pc[c] = "returned" /\ tried[c] # <<>>) =>
              LET last == tried[c][Len(tried[c])].r
              IN /\ last = "timeout" => res[c] = "timeout"
                 /\ last = "ok" => res[c] = "conn"
                 /\ last = "err" => res[c] = "dialErr" /\ Len(tried[c]) = Len(addrs[c])

\* C7: once a Dial has returned ErrDialTimeout, no worker it started is still
\* running (so none holds a slot for it) and no connection it established
\* sits unread in a channel.
C7_TimeoutLeavesNothingBehind ==
    \A c \in Callers :
        (pc[c] = "returned" /\ res[c] = "timeout") =>
            /\ \A w \in 1..MaxWorkers :
                  workers[w].st # "none" => workers[w].owner # c
            /\ \A i \in 1..MaxChans :
                  chans[i] # <<>> => ~(chans[i][1].by = c /\ chans[i][1].ok)

\* C8: every Dial call eventually returns a connection or an error, whatever
\* the resolver, the semaphore and the network do, as long as timers fire.
C8_DialReturns ==
    \A c \in Callers : (pc[c] = "lookup") ~> (pc[c] = "returned")

\* C2: a caller that looks a host up while a refresh of its stale entry is in
\* flight performs no resolution of its own and is served the old entry, so
\* one stale entry causes one re-resolution.
C2_OneRefreshPerStaleEntry ==
    \A c \in Callers : during[c] # {} => e[c] \in during[c]

\* the number of addresses of the entry that served the m-th call
K(m) == Len(entries[served[m].ent].addrs)

\* how often address a was the starting index in calls i..j
StartCount(i, j, a) ==
    Cardinality({ m \in i..j : served[m].idx % K(m) = a })

\* each address starts at least floor(N/k) of the N calls i..j
FairWindow(i, j) ==
    \A a \in 0..(K(i) - 1) : StartCount(i, j, a) >= (j - i + 1) \div K(i)

\* C4 as claimed: over any N consecutive calls of getTCPAddrs for a host with
\* k addresses each address is the starting index at least floor(N/k) times,
\* also across a replacement of the entry and a wrap of the index.
C4_FairStartAlways ==
    \A i, j \in 1..Len(served) :
        (i <= j /\ \A m \in i..j : K(m) = K(i)) => FairWindow(i, j)

\* calls i..j were served by one entry and its index did not wrap among them
OneEntryNoWrap(i, j) ==
    /\ \A m \in i..j : served[m].ent = served[i].ent
    /\ \A m \in (i + 1)..j : served[m].idx # 0

\* C4 (amended): over N consecutive calls served by the same cache entry,
\* between which its index does not wrap, each of the entry's k addresses is
\* the starting index at least floor(N/k) times.
C4_FairStartPerEntry ==
    \A i, j \in 1..Len(served) :
        (i <= j /\ OneEntryNoWrap(i, j)) => FairWindow(i, j)

\* C4's case: at least k >= 2 consecutive calls on one entry, no wrap
C4_Witness ==
    \E i, j \in 1..Len(served) :
        /\ i < j
        /\ OneEntryNoWrap(i, j)
        /\ K(i) >= 2
        /\ j - i + 1 >= K(i)

\* C6: when the re-resolution of a stale entry fails, getTCPAddrs returns the
\* error with the old entry still in the cache, its addresses, index and
\* resolve time as they were and pending false; when it succeeds the new
\* entry (pending false, resolved now or later than the old) is the cached
\* one; a cached entry is pending only while a refresher is at work.
C6_FailedRefreshKeepsEntry ==
    /\ [][\A c \in Callers :
            /\ (pc[c] = "resolveFail" /\ pc'[c] = "returned" /\ marked[c] # Nil) =>
                  /\ tcpAddrsMap'[addr[c]] = marked[c]
                  /\ entries'[marked[c]] = [entries[marked[c]] EXCEPT !.pending = FALSE]
            /\ (pc[c] = "store" /\ pc'[c] = "addIdx" /\ marked[c] # Nil) =>
                  /\ tcpAddrsMap'[addr[c]] = e[c]
                  /\ ~entries'[e[c]].pending
                  /\ entries'[e[c]].resolveTime >= entries'[marked[c]].resolveTime
         ]_vars
    /\ [](\A h \in Hosts :
            (tcpAddrsMap[h] # Nil /\ entries[tcpAddrsMap[h]].pending) =>
                Refreshers(h) # {})

\* h is a host with a port: a non-empty name without ':' or '/', ':', a port
IsHostWithPort(h) ==
    \E i \in 2..(Len(h) - 1) :
        /\ h[i] = ":"
        /\ \A j \in 1..Len(h) : j # i => h[j] \notin {":", "/", "?", "#"}

\* C9: on a non-CONNECT URI, ChangeHost(h) followed by
\* ChangePathWithFragment(p) leaves PathWithQueryFragment() == p and
\* HostInfo().HostWithPort() == h. Stated here for the arguments the two
\* methods are made for, a host with its port and a path that begins with
\* '/'; the claim makes it for every h and p.
C9_Reconstruction ==
    (/\ Len(ops) = 3
     /\ ops[2].op = "ChangeHost"
     /\ ops[3].op = "ChangePathWithFragment"
     /\ ~uri.isConnect
     /\ IsHostWithPort(ops[2].arg)
     /\ Len(ops[3].arg) > 0 /\ ops[3].arg[1] = "/") =>
        /\ PathWithQueryFragment(uri).pathWithQueryFragment = ops[3].arg
        /\ uri.hostInfo.hostWithPort = ops[2].arg

\* raw is scheme://host/..., with an alphanumeric scheme and a non-empty
\* host; i is the 0-based offset of the '/' that starts its path
IsAbsoluteFormAt(raw, i) ==
    \E k \in 1..Len(raw) :
        /\ \A j \in 1..k : raw[j] \in AlnumBytes
        /\ SubSeq(raw, k + 1, k + 3) = <<":", "/", "/">>
        /\ i > k + 3
        /\ i < Len(raw)
        /\ raw[i + 1] = "/"
        /\ \A j \in (k + 4)..i : raw[j] \notin {"/", "?", "#"}

\* C10: for an absolute-form request-target parsed with isConnect = false,
\* PathWithQueryFragment() is the origin form: the bytes from the path on.
C10_OriginForm ==
    (/\ Len(ops) = 1
     /\ ~uri.isConnect) =>
        \A i \in 0..Len(ops[1].arg) :
            IsAbsoluteFormAt(ops[1].arg, i) =>
                PathWithQueryFragment(uri).pathWithQueryFragment = From(ops[1].arg, i)

\* raw is a host name: a non-empty string of letters, digits and dots
IsHostName(raw) ==
    /\ Len(raw) > 0
    /\ \A j \in 1..Len(raw) : raw[j] \in AlnumBytes \cup {"."}

\* raw is host:port with a non-empty numeric port; i is the offset of the ':'
IsHostColonPort(raw, i) ==
    /\ i >= 1
    /\ i + 1 < Len(raw)
    /\ raw[i + 1] = ":"
    /\ IsHostName(UpTo(raw, i))
    /\ \A j \in (i + 2)..Len(raw) : raw[j] = "1"

\* what C11 says Parse(true, raw) leaves for the authority raw, whose host
\* name is name and whose port is port
ConnectParsed(raw, name, port) ==
    /\ uri.full = raw
    /\ uri.host = raw
    /\ uri.scheme = <<>> /\ uri.path = <<>>
    /\ uri.queries = <<>> /\ uri.fragments = <<>>
    /\ PathWithQueryFragment(uri).pathWithQueryFragment = <<>>
    /\ uri.hostInfo.domain = name
    /\ uri.hostInfo.port = port
    /\ uri.hostInfo.hostWithPort = name \o <<":">> \o port

\* C11: for a CONNECT authority raw = host or host:port, Parse(true, raw)
\* leaves only host and full populated, host == raw, and HostInfo has the
\* host name as domain, the given port or 443, and HostWithPort ==
\* domain:port; a non-CONNECT URI whose host has no port gets port 80.
C11_ConnectAuthority ==
    (Len(ops) = 1 /\ ops[1].op = "Parse") =>
        LET raw == ops[1].arg
        IN /\ (uri.isConnect /\ IsHostName(raw)) =>
                 ConnectParsed(raw, raw, <<"4", "4", "3">>)
           /\ \A i \in 1..Len(raw) :
                 (uri.isConnect /\ IsHostColonPort(raw, i)) =>
                     ConnectParsed(raw, UpTo(raw, i), From(raw, i + 1))
           /\ (~uri.isConnect /\ IsHostName(uri.host)) =>
                 uri.hostInfo.port = <<"8", "0">>

\* C12: immediately after Parse(isConnect, raw), full == raw byte for byte.
C12_FullIsRaw ==
    (Len(ops) = 1 /\ ops[1].op = "Parse") => uri.full = ops[1].arg

\* C12's case: a CONNECT Parse of a string with a query and a fragment has
\* kept every byte
C12_Witness ==
    /\ Len(ops) = 1 /\ ops[1].op = "Parse"
    /\ ops[1].arg = <<"a", "?", "#">>
    /\ uri.isConnect
    /\ uri.full = <<"a", "?", "#">>

\* C13: after Parse(false, raw) the path is never empty: the parsed path
\* when the target has one, "/" when it has none, for every raw, the empty
\* string included.
C13_PathNeverEmpty ==
    (Len(ops) = 1 /\ ops[1].op = "Parse" /\ ~uri.isConnect) =>
        /\ uri.path # <<>>
        /\ ParseWithoutQueriesFragments(uri.full).path = <<>> => uri.path = <<"/">>

\* C14: a plain request whose request-target carries no host (it begins with
\* '/') and that has no Host header is not forwarded: its HostInfo has an
\* empty HostWithPort and the answer is 400 Bad Request.
C14_NoHostIs400 ==
    (/\ Len(ops) = 1
     /\ ops[1].op = "Serve"
     /\ Len(ops[1].arg) > 0
     /\ ops[1].arg[1] = "/") =>
        /\ uri.hostInfo.hostWithPort = <<>>
        /\ resp = "400"

\* C14's case: GET / without Host header was answered
C14_Witness ==
    /\ Len(ops) = 1
    /\ ops[1].op = "Serve"
    /\ ops[1].arg = <<"/">>
    /\ resp = "400"

\* C15: ChangeHost and ChangePathWithFragment build the new full in a buffer
\* of their own: the bytes of the raw slice handed to Parse and the bytes of
\* every argument are as the caller handed them in, and after a call that
\* rebuilt full, full is stored in none of the callers' buffers, whatever
\* capacity the raw slice has.
C15_FreshBuffer ==
    (Len(ops) >= 2 /\ ops[1].op = "Parse") =>
        /\ \A k \in 1..Len(ops) :
              ops[k].op \in {"Parse", "ChangePathWithFragment"} =>
                  UpTo(bufs[k], Len(ops[k].arg)) = ops[k].arg
        /\ rebuilt => fullAt.buf = 0

\* C16: the DialFunc never returns (nil, nil): a Dial that has returned gave
\* a connection with a nil error, or no connection with ErrDialTimeout, the
\* resolver's error or the last attempt's error.
C16_NeverNilNil ==
    \A c \in Callers :
        (pc[c] = "returned" /\ op[c] = "Dial") =>
            /\ res[c] # "nilnil"
            /\ res[c] \in {"conn", "timeout", "dialErr", "dnsErr"}
            /\ res[c] = "conn" <=>
                  (tried[c] # <<>> /\ tried[c][Len(tried[c])].r = "ok")

\* C16's case: every address was tried and failed, the loop ended with n = 0
C16_Witness ==
    \E c \in Callers :
        /\ pc[c] = "returned" /\ op[c] = "Dial"
        /\ res[c] = "dialErr"
        /\ n[c] = 0
        /\ Len(addrs[c]) = 2

\* callers that are inside tryDial
InTryDial == { c \in Callers : pc[c] \in {"acquire", "waitSlot", "check", "waitResult"} }

\* callers that hold a slot themselves: acquired, worker not yet started
HoldingSlot == { c \in Callers : pc[c] = "check" }

\* every token in concurrencyCh belongs to a caller between its acquisition
\* and the start of its worker, or to a worker that has not yet taken it out
SlotsAccounted == concurrencyCh = Cardinality(HoldingSlot) + Running

\* C17 as claimed: every slot acquired is released exactly once, by the
\* caller when the deadline has passed right after the acquisition and by the
\* worker otherwise, no slot is released that was not acquired and a timeout
\* while waiting leaves the semaphore as it was; hence whenever every started
\* connect (net.DialTCP) has completed and no caller is inside tryDial, the
\* semaphore is empty.
C17_EmptyWhenConnectsDone ==
    /\ SlotsAccounted
    /\ (InFlight = 0 /\ InTryDial = {}) => concurrencyCh = 0

\* C17 (amended): the same accounting; whenever every started worker has
\* finished (sent its result and taken its token out) and no caller is
\* inside tryDial, the semaphore is empty.
C17_SlotAccounting ==
    /\ SlotsAccounted
    /\ (Running = 0 /\ InTryDial = {}) => concurrencyCh = 0

\* C17's case: a Dial went through acquisition, connect and the worker's
\* release, and the semaphore is empty again
C17_Witness ==
    /\ concurrencyCh = 0
    /\ Running = 0
    /\ InTryDial = {}
    /\ \E c \in Callers : pc[c] = "returned" /\ res[c] \in {"conn", "dialErr"}

\* workers that have yet to send their result
Unsent == { w \in 1..MaxWorkers : workers[w].st \in {"dial", "send"} }

\* C18: with pooled channels a caller receives only the result of the
\* connect it started: a pooled channel is empty and no worker has yet to
\* send on it (it went back only after its one result was consumed, never on
\* a timeout), a waiting caller's channel is nobody else's, what arrives on
\* it comes from its own worker, and a worker about to send finds its
\* channel empty, so the send does not block.
C18_OwnResultOnly ==
    /\ \A i \in dialResultChanPool :
          /\ chans[i] = <<>>
          /\ \A w \in Unsent : workers[w].ch # i
          /\ \A c \in Callers : ch[c] # i
    /\ \A c \in Callers : pc[c] = "waitResult" =>
          /\ chans[ch[c]] # <<>> => chans[ch[c]][1].by = c
          /\ \A w \in Unsent : workers[w].ch = ch[c] => workers[w].owner = c
          /\ \A d \in Callers \ {c} : pc[d] = "waitResult" => ch[d] # ch[c]
    /\ \A w \in Unsent : chans[workers[w].ch] = <<>>
    /\ \A w, v \in Unsent : w # v => workers[w].ch # workers[v].ch

\* C18's case: a caller took a channel from the pool and its own worker's
\* result has arrived on it
C18_Witness ==
    \E c \in Callers :
        /\ pc[c] = "waitResult"
        /\ tried[c][Len(tried[c])].pooled
        /\ chans[ch[c]] # <<>>
        /\ chans[ch[c]][1].by = c

\* the key h is in the map and its entry is older than 2 x DNSCacheDuration
Aged(h) ==
    /\ tcpAddrsMap[h] # Nil
    /\ Age(tcpAddrsMap[h]) > 2 * DefaultDNSCacheDuration

\* C19: a wake-up of the reaper deletes exactly the keys whose entry is
\* older than 2 x DNSCacheDuration, pending or not, and keeps the others;
\* and an entry leaves the map only by such a deletion or when a caller
\* stores the entry it has just resolved for the same host.
C19_ReaperDeletesExactlyAged ==
    [][ /\ wakeups' # wakeups =>
              \A h \in Hosts :
                  tcpAddrsMap'[h] = IF Aged(h) THEN Nil ELSE tcpAddrsMap[h]
        /\ \A h \in Hosts :
              (tcpAddrsMap[h] # Nil /\ tcpAddrsMap'[h] # tcpAddrsMap[h]) =>
                  \/ wakeups' # wakeups /\ Aged(h) /\ tcpAddrsMap'[h] = Nil
                  \/ \E c \in Callers :
                        /\ pc[c] = "store" /\ pc'[c] = "addIdx"
                        /\ addr[c] = h
                        /\ tcpAddrsMap'[h] = e[c]
      ]_vars

\* C19's case: the reaper has deleted the key of an entry that was pending,
\* while the caller that set the flag is still resolving
C19_Witness ==
    \E r \in Callers :
        /\ pc[r] = "resolve"
        /\ marked[r] # Nil
        /\ entries[marked[r]].pending
        /\ Age(marked[r]) > 2 * DefaultDNSCacheDuration
        /\ tcpAddrsMap[addr[r]] = Nil
        /\ wakeups = 1

\* C20: however the getDialer calls interleave, the once function has run at
\* most once and exactly once when a DialFunc exists, one reaper was started
\* by it, no key of dialMap was given two DialFuncs, two calls that rounded
\* to the same key returned the same DialFunc, and every DialFunc works on
\* the one semaphore and the one DNS map of dialerStd.
C20_FirstUseRaceFree ==
    /\ reapers <= 1
    /\ dialerStd.once <=> reapers = 1
    /\ dialFuncs # <<>> => dialerStd.once
    /\ \A i, j \in 1..Len(dialFuncs) : dialFuncs[i].key = dialFuncs[j].key => i = j
    /\ \A p, q \in got : p[1] = q[1] => p[2] = q[2]
    /\ \A p \in got : p[2] # Nil /\ dialMap[p[1]] = p[2]
    /\ \A i \in 1..Len(dialFuncs) :
          /\ dialFuncs[i].concurrencyCh = dialerStd.concurrencyCh
          /\ dialFuncs[i].tcpAddrsMap = dialerStd.tcpAddrsMap
          /\ dialFuncs[i].concurrencyCh # Nil

\* C20's case: two callers with different timeouts that round to the same
\* key have both returned, with the same DialFunc, and a second key has
\* been created too
C20_Witness ==
    /\ \A c \in Callers : gpc[c] = "done"
    /\ \E c, c2 \in Callers :
          /\ timeout[c] # timeout[c2]
          /\ timeoutRounded[c] = timeoutRounded[c2]
          /\ dfunc[c] = dfunc[c2]
          /\ dfunc[c] # Nil
    /\ Len(dialFuncs) = 2
    /\ ngets = NumCallers + 1

====
